---- MODULE Spec2Model ----
(***************************************************************************)
(* The route-handler rewriting scripts of backend/: add-returns.py,        *)
(* fix-returns.py, fix-return-types.py, fix-route-types.py and             *)
(* remove-return-types.py.  Each script reads one TypeScript file, edits   *)
(* it line by line and (conditionally) writes it back.                     *)
(*                                                                         *)
(* Text is a sequence of lexemes.  Every lexeme stands for the characters  *)
(* written in its string; the three whitespace lexemes " ", "\t" and "\n"  *)
(* are single characters, so counting leading whitespace lexemes counts    *)
(* leading whitespace characters.  The substrings the scripts search for   *)
(* ('res.json(', 'res.status(', '.json(', '.status(', 'return res.',       *)
(* 'return;', ');', '//', '}', 'return') are concatenations of whole       *)
(* lexemes and no lexeme overlaps another, so a substring test on the      *)
(* characters is a subsequence test on the lexemes.                        *)
(***************************************************************************)
EXTENDS Integers, Sequences, FiniteSets, TLC

VARIABLES content, before, op, prevOp, wrote, ret, nrun,
          hints, pc, lines, todo, added

vars == <<content, before, op, prevOp, wrote, ret, nrun,
          hints, pc, lines, todo, added>>

scanVars == <<content, before, op, prevOp, wrote, ret, nrun>>
hintVars == <<hints, pc, lines, todo, added>>

(***************************************************************************)
(* Bounds of the model.                                                    *)
(***************************************************************************)
MaxLines == 3
MaxRuns == 2
MaxHintLines == 3
MaxHints == 2
MaxHintRuns == 1

(***************************************************************************)
(* Python string primitives, on lexeme sequences.                          *)
(***************************************************************************)
IsWs(t) == t \in {" ", "\t", "\n"}

RECURSIVE LStrip(_)
LStrip(s) == IF s # <<>> /\ IsWs(Head(s)) THEN LStrip(Tail(s)) ELSE s

RECURSIVE RStrip(_)
RStrip(s) ==
    IF s # <<>> /\ IsWs(s[Len(s)]) THEN RStrip(SubSeq(s, 1, Len(s) - 1)) ELSE s

Strip(s) == RStrip(LStrip(s))

StartsWith(s, pat) == Len(pat) <= Len(s) /\ SubSeq(s, 1, Len(pat)) = pat

EndsWith(s, pat) ==
    Len(pat) <= Len(s) /\ SubSeq(s, Len(s) - Len(pat) + 1, Len(s)) = pat

Contains(s, pat) ==
    \E i \in 1..(Len(s) - Len(pat) + 1) : SubSeq(s, i, i + Len(pat) - 1) = pat

\* s.find(pat): the first position of pat in s, 0 when absent
Find(s, pat) ==
    IF Contains(s, pat)
    THEN CHOOSE i \in 1..(Len(s) - Len(pat) + 1) :
            /\ SubSeq(s, i, i + Len(pat) - 1) = pat
            /\ \A j \in 1..(i - 1) : SubSeq(s, j, j + Len(pat) - 1) # pat
    ELSE 0

\* str.replace(pat, rep) and re.sub of a literal pattern: every
\* non-overlapping occurrence, leftmost first
RECURSIVE Replace(_, _, _)
Replace(s, pat, rep) ==
    LET n == Find(s, pat) IN
    IF n = 0 THEN s
    ELSE SubSeq(s, 1, n - 1) \o rep
            \o Replace(SubSeq(s, n + Len(pat), Len(s)), pat, rep)

\* ' ' * n
Spaces(n) == [i \in 1..n |-> " "]

\* f.readlines(): the lines of the text, each with its terminator; a last
\* line without terminator is kept as it is
RECURSIVE ReadLines(_)
ReadLines(s) ==
    IF s = <<>> THEN <<>>
    ELSE LET n == Find(s, <<"\n">>) IN
         IF n = 0 THEN <<s>>
         ELSE <<SubSeq(s, 1, n)>> \o ReadLines(SubSeq(s, n + 1, Len(s)))

\* f.writelines(ls): the lines one after the other, nothing added
RECURSIVE WriteLines(_)
WriteLines(ls) == IF ls = <<>> THEN <<>> ELSE Head(ls) \o WriteLines(Tail(ls))

\* content.split('\n')
RECURSIVE Split(_)
Split(s) ==
    LET n == Find(s, <<"\n">>) IN
    IF n = 0 THEN <<s>>
    ELSE <<SubSeq(s, 1, n - 1)>> \o Split(SubSeq(s, n + 1, Len(s)))

\* '\n'.join(ls)
RECURSIVE Join(_)
Join(ls) ==
    IF ls = <<>> THEN <<>>
    ELSE IF Len(ls) = 1 THEN ls[1]
    ELSE ls[1] \o <<"\n">> \o Join(Tail(ls))

(***************************************************************************)
(* The substrings the scripts look for.                                    *)
(***************************************************************************)
RES_JSON == <<"res", ".", "json(">>
RES_STATUS == <<"res", ".", "status(">>
DOT_JSON == <<".", "json(">>
DOT_STATUS == <<".", "status(">>
RETURN_RES == <<"return", " ", "res", ".">>
RES_DOT == <<"res", ".">>
RETURN_KW == <<"return">>
RETURN_SEMI == <<"return", ";">>
CLOSE_SEMI == <<")", ";">>
SIG == "async (req: Request, res: Response)"
PROMISE == ": Promise<void>"
ARROW == " =>"
SIG_VOID == <<SIG, PROMISE, ARROW>>
SIG_PLAIN == <<SIG, ARROW>>

\* len(line) - len(line.lstrip())
Indent(line) == Len(line) - Len(LStrip(line))

(***************************************************************************)
(* add-returns.py, fix_file                                                *)
(***************************************************************************)
\* the condition of the if statement; `and` binds tighter than `or`
AddMatches(line) ==
    /\ \/ Contains(line, RES_JSON)
       \/ Contains(line, RES_STATUS) /\ Contains(line, DOT_JSON)
    /\ ~StartsWith(Strip(line), RETURN_KW)
    /\ EndsWith(Strip(line), CLOSE_SEMI)

AddReturnLine(line) == Spaces(Indent(line)) \o <<"return", ";", "\n">>

\* the while loop: new_lines
RECURSIVE AddNewLines(_)
AddNewLines(ls) ==
    IF ls = <<>> THEN <<>>
    ELSE (IF AddMatches(Head(ls))
          THEN <<Head(ls), AddReturnLine(Head(ls))>>
          ELSE <<Head(ls)>>) \o AddNewLines(Tail(ls))

\* the while loop: changes
AddChanges(ls) == Cardinality({i \in 1..Len(ls) : AddMatches(ls[i])})

AddReturns ==
    /\ nrun < MaxRuns
    /\ LET ls == ReadLines(content) IN
       /\ wrote' = (AddChanges(ls) > 0)
       /\ content' = IF AddChanges(ls) > 0 THEN WriteLines(AddNewLines(ls))
                     ELSE content
       /\ ret' = (AddChanges(ls) > 0)
    /\ before' = content
    /\ op' = "add_returns"
    /\ prevOp' = op
    /\ nrun' = nrun + 1
    /\ UNCHANGED hintVars

(***************************************************************************)
(* fix-return-types.py, fix_route_handlers                                 *)
(***************************************************************************)
TypesMatches(line) ==
    /\ Contains(line, RETURN_RES)
    /\ Contains(line, DOT_JSON) \/ Contains(line, DOT_STATUS)

\* whether 'return;' is appended after line i of ls
TypesAddsReturn(ls, i) ==
    /\ i + 1 <= Len(ls)
    /\ LET next_line == Strip(ls[i + 1]) IN
       \/ StartsWith(next_line, <<"}">>)
       \/ next_line # <<>> /\ ~StartsWith(next_line, <<"//">>)

RECURSIVE TypesNewLinesFrom(_, _)
TypesNewLinesFrom(ls, i) ==
    IF i > Len(ls) THEN <<>>
    ELSE (IF TypesMatches(ls[i])
          THEN <<Replace(ls[i], RETURN_RES, RES_DOT)>>
                 \o (IF TypesAddsReturn(ls, i)
                     THEN <<Spaces(Indent(ls[i])) \o <<"return", ";">> >>
                     ELSE <<>>)
          ELSE <<ls[i]>>) \o TypesNewLinesFrom(ls, i + 1)

TypesNewLines(ls) == TypesNewLinesFrom(ls, 1)

\* content after line 29: the annotation removed from every signature
TypesSubbed(text) == Replace(text, SIG_VOID, SIG_PLAIN)

TypesNewContent(text) == Join(TypesNewLines(Split(TypesSubbed(text))))

\* new_content is compared with the content after the substitution
TypesWrites(text) == TypesNewContent(text) # TypesSubbed(text)

FixReturnTypes ==
    /\ nrun < MaxRuns
    /\ wrote' = TypesWrites(content)
    /\ content' = IF TypesWrites(content) THEN TypesNewContent(content)
                  ELSE content
    /\ ret' = TypesWrites(content)
    /\ before' = content
    /\ op' = "fix_return_types"
    /\ prevOp' = op
    /\ nrun' = nrun + 1
    /\ UNCHANGED hintVars

(***************************************************************************)
(* fix-route-types.py, fix_route_handlers                                  *)
(***************************************************************************)
RouteNewContent(text) == Replace(text, SIG_PLAIN, SIG_VOID)

FixRouteTypes ==
    /\ nrun < MaxRuns
    /\ wrote' = (RouteNewContent(content) # content)
    /\ content' = RouteNewContent(content)
    /\ ret' = (RouteNewContent(content) # content)
    /\ before' = content
    /\ op' = "fix_route_types"
    /\ prevOp' = op
    /\ nrun' = nrun + 1
    /\ UNCHANGED hintVars

(***************************************************************************)
(* remove-return-types.py, fix_file                                        *)
(***************************************************************************)
RemoveNewContent(text) == Replace(text, SIG_VOID, SIG_PLAIN)

RemoveReturnTypes ==
    /\ nrun < MaxRuns
    /\ wrote' = (RemoveNewContent(content) # content)
    /\ content' = RemoveNewContent(content)
    /\ ret' = (RemoveNewContent(content) # content)
    /\ before' = content
    /\ op' = "remove_return_types"
    /\ prevOp' = op
    /\ nrun' = nrun + 1
    /\ UNCHANGED hintVars

(***************************************************************************)
(* fix-returns.py, fix_file.  The hint list of a file is the entry of the  *)
(* module-level dictionary `fixes`: it is fixed before the first run and   *)
(* is the same in every run.  The for loop is one step per hint.           *)
(***************************************************************************)
\* the sequence s with x put before the first element smaller than x
RECURSIVE InsertDesc(_, _)
InsertDesc(x, s) ==
    IF s = <<>> THEN <<x>>
    ELSE IF x >= Head(s) THEN <<x>> \o s
    ELSE <<Head(s)>> \o InsertDesc(x, Tail(s))

\* the sequence s with x put before the first element larger than x
RECURSIVE InsertAsc(_, _)
InsertAsc(x, s) ==
    IF s = <<>> THEN <<x>>
    ELSE IF x <= Head(s) THEN <<x>> \o s
    ELSE <<Head(s)>> \o InsertAsc(x, Tail(s))

\* sorted(line_numbers): the hints in ascending order
RECURSIVE SortedForward(_)
SortedForward(s) ==
    IF s = <<>> THEN <<>> ELSE InsertAsc(Head(s), SortedForward(Tail(s)))

\* sorted(line_numbers, reverse=True)
RECURSIVE SortedReverse(_)
SortedReverse(s) ==
    IF s = <<>> THEN <<>> ELSE InsertDesc(Head(s), SortedReverse(Tail(s)))

\* the nested conditions under which lines.insert is reached for line_num
FixInserts(ls, line_num) ==
    /\ line_num - 1 < Len(ls)
    /\ Contains(ls[line_num], RES_JSON) \/ Contains(ls[line_num], RES_STATUS)
    /\ ~StartsWith(Strip(ls[line_num]), RETURN_KW)
    /\ line_num + 1 <= Len(ls)
    /\ ~Contains(ls[line_num + 1], RETURN_SEMI)

FixReturnLine(line) == Spaces(Indent(line)) \o <<"return", ";", "\n">>

\* lines.insert(idx + 1, ...), idx = line_num - 1
FixInsert(ls, line_num) ==
    SubSeq(ls, 1, line_num) \o <<FixReturnLine(ls[line_num])>>
        \o SubSeq(ls, line_num + 1, Len(ls))

\* the file is read and the hints are sorted
FixStart ==
    /\ pc = "idle"
    /\ nrun < MaxHintRuns
    /\ pc' = "loop"
    /\ lines' = ReadLines(content)
    /\ todo' = SortedReverse(hints)
    /\ added' = {}
    /\ before' = content
    /\ UNCHANGED <<content, op, prevOp, wrote, ret, nrun, hints>>

\* one iteration of the for loop; `added` is the log of the print statement
FixLoop ==
    /\ pc = "loop"
    /\ todo # <<>>
    /\ LET line_num == Head(todo) IN
       IF FixInserts(lines, line_num)
       THEN /\ lines' = FixInsert(lines, line_num)
            /\ added' = added \cup {line_num}
       ELSE UNCHANGED <<lines, added>>
    /\ todo' = Tail(todo)
    /\ UNCHANGED <<scanVars, hints, pc>>

\* after the loop the file is written and True is returned, changed or not
FixWrite ==
    /\ pc = "loop"
    /\ todo = <<>>
    /\ content' = WriteLines(lines)
    /\ wrote' = TRUE
    /\ ret' = TRUE
    /\ op' = "fix_returns"
    /\ prevOp' = op
    /\ nrun' = nrun + 1
    /\ pc' = "idle"
    /\ UNCHANGED <<before, hints, lines, todo, added>>

(***************************************************************************)
(* Input files: up to a bounded number of lines taken from a pool of       *)
(* TypeScript lines, with or without a terminator on the last line.        *)
(***************************************************************************)
Sp2 == <<" ", " ">>
L_json == Sp2 \o <<"res", ".", "json(", "x", ")", ";">>
L_json0 == <<"res", ".", "json(", "x", ")", ";">>
L_tab == <<"\t", "res", ".", "json(", "x", ")", ";">>
L_return == Sp2 \o <<"return", ";">>
L_retjson ==
    Sp2 \o <<"return", " ", "res", ".", "status(", "x", ")", ".", "json(",
             "x", ")", ";">>
L_retend ==
    Sp2 \o <<"return", " ", "res", ".", "status(", "x", ")", ".", "end(",
             ")", ";">>
L_open == Sp2 \o <<"res", ".", "status(", "x", ")", ".", "json(", "{">>
L_retopen ==
    Sp2 \o <<"return", " ", "res", ".", "status(", "x", ")", ".", "json(",
             "{">>
L_inner == Sp2 \o Sp2 \o <<"x">>
L_close == Sp2 \o <<"}", ")", ";">>
L_comment == Sp2 \o <<"//", " ", "res", ".", "json(", "x", ")", ";">>
L_commentret ==
    Sp2 \o <<"//", " ", "return", " ", "res", ".", "json(", "x", ")", ";">>
L_blank == <<>>
L_brace == <<"}">>
L_sig == <<"x", " ", SIG, ARROW, " ", "{">>
L_sigvoid == <<"x", " ", SIG, PROMISE, ARROW, " ", "{">>

Pool ==
    {L_json, L_json0, L_tab, L_return, L_retjson, L_retend, L_open, L_retopen,
     L_inner, L_close, L_comment, L_commentret, L_blank, L_brace, L_sig,
     L_sigvoid}

HintPool == {L_json, L_return, L_retjson, L_open, L_close}

\* the text of the lines ls, the last one terminated iff nl
Text(ls, nl) ==
    Join(ls) \o (IF nl /\ ls # <<>> THEN <<"\n">> ELSE <<>>)

Files(pool, n) ==
    {Text(ls, nl) : ls \in UNION {[1..k -> pool] : k \in 0..n},
                    nl \in BOOLEAN}

HintLists == UNION {[1..k -> 1..(MaxHintLines + 1)] : k \in 0..MaxHints}

InitCommon ==
    /\ before = <<>>
    /\ op = "none"
    /\ prevOp = "none"
    /\ wrote = FALSE
    /\ ret = FALSE
    /\ nrun = 0
    /\ pc = "idle"
    /\ lines = <<>>
    /\ todo = <<>>
    /\ added = {}

Init ==
    /\ content \in Files(Pool, MaxLines)
    /\ hints = <<>>
    /\ InitCommon

Next ==
    \/ AddReturns
    \/ FixReturnTypes
    \/ FixRouteTypes
    \/ RemoveReturnTypes

Spec == Init /\ [][Next]_vars

InitHints ==
    /\ content \in Files(HintPool, MaxHintLines)
    /\ hints \in HintLists
    /\ InitCommon

NextHints ==
    \/ FixStart
    \/ FixLoop
    \/ FixWrite

SpecHints == InitHints /\ [][NextHints]_vars

(***************************************************************************)
(* Vocabulary of the properties: what a reader of the output sees.         *)
(***************************************************************************)
\* the physical lines of a text, without their terminators
RECURSIVE PhysLines(_)
PhysLines(s) ==
    IF s = <<>> THEN <<>>
    ELSE LET n == Find(s, <<"\n">>) IN
         IF n = 0 THEN <<s>>
         ELSE <<SubSeq(s, 1, n - 1)>> \o PhysLines(SubSeq(s, n + 1, Len(s)))

IsComment(line) == StartsWith(Strip(line), <<"//">>)

\* a `res.json(` or `res.status(...).json(` call is written on the line
HasEmitCall(line) ==
    \/ Contains(line, RES_JSON)
    \/ Contains(line, RES_STATUS) /\ Contains(line, DOT_JSON)

IsEmitting(line) == HasEmitCall(line) /\ ~IsComment(line)

IsBareReturn(line) == Strip(line) = <<"return", ";">>

Terminated(line) == EndsWith(Strip(line), CLOSE_SEMI)

\* the statement is `return res.json(` or `return res.status(...).json(`
LeadingExit(line) ==
    \/ StartsWith(Strip(line), <<"return", " ", "res", ".", "json(">>)
    \/ /\ StartsWith(Strip(line), <<"return", " ", "res", ".", "status(">>)
       /\ Contains(line, DOT_JSON)

\* the line without its leading `return ` keyword
WithoutReturn(line) ==
    SubSeq(line, 1, Indent(line)) \o SubSeq(line, Indent(line) + 3, Len(line))

\* the number of leading space characters (tabs are not spaces)
RECURSIVE LeadingSpaces(_)
LeadingSpaces(line) ==
    IF line # <<>> /\ Head(line) = " " THEN 1 + LeadingSpaces(Tail(line)) ELSE 0

\* the last line of the statement that starts on line i: the first line from
\* i on that ends in `);`, the last line of the file when there is none
StmtEnd(ls, i) ==
    IF \E j \in i..Len(ls) : Terminated(ls[j])
    THEN CHOOSE j \in i..Len(ls) :
            Terminated(ls[j]) /\ \A k \in i..(j - 1) : ~Terminated(ls[k])
    ELSE Len(ls)

\* line i opens a call that is closed on a later line
IsOpening(ls, i) ==
    /\ IsEmitting(ls[i])
    /\ ~Terminated(ls[i])
    /\ \E j \in (i + 1)..Len(ls) : Terminated(ls[j])

Block(ls, blk) ==
    \E k \in 1..(Len(ls) - Len(blk) + 1) : SubSeq(ls, k, k + Len(blk) - 1) = blk

IsFrameLine(line) ==
    ~HasEmitCall(line) /\ ~IsBareReturn(line) /\ ~Contains(line, <<SIG>>)

\* the comment lines in order, each with whether a bare return follows it
RECURSIVE CommentFollowFrom(_, _)
CommentFollowFrom(ls, i) ==
    IF i > Len(ls) THEN <<>>
    ELSE (IF IsComment(ls[i])
          THEN << <<ls[i], i + 1 <= Len(ls) /\ IsBareReturn(ls[i + 1])>> >>
          ELSE <<>>) \o CommentFollowFrom(ls, i + 1)

EndsWithNewline(text) == text # <<>> /\ text[Len(text)] = "\n"

InLines == PhysLines(before)
OutLines == PhysLines(content)
ScanDone == op \in {"add_returns", "fix_return_types"}

\* the file read was empty or its last line was terminated
InputTerminated == before = <<>> \/ EndsWithNewline(before)

(***************************************************************************)
(* Claims                                                                  *)
(***************************************************************************)
\* C1: Idempotence.  When the same exit-inserting script has just run for
\* the second time in a row, the second run changed nothing: the file is the
\* file the second run read.
C1_Idempotence ==
    (ScanDone /\ prevOp = op) => content = before

\* C2: Coverage.  After a run of the exit-inserting scan over a file whose
\* last line is terminated, every response-emitting statement of the file
\* that is closed by a `);`, single-line or multi-line, with or without a
\* leading return, is followed by exactly one bare `return;`.
C2_Coverage ==
    (op = "add_returns" /\ InputTerminated) =>
        \A i \in 1..Len(OutLines) :
            (/\ IsEmitting(OutLines[i])
             /\ \E j \in i..Len(OutLines) : Terminated(OutLines[j])) =>
                LET e == StmtEnd(OutLines, i) IN
                /\ e + 1 <= Len(OutLines)
                /\ IsBareReturn(OutLines[e + 1])
                /\ ~(e + 2 <= Len(OutLines) /\ IsBareReturn(OutLines[e + 2]))

\* C3: Placement for multi-line statements.  After a run of the hint-driven
\* script every multi-line response call of the file read, from its opening
\* line to its closing line, is still a block of adjacent lines: nothing was
\* inserted between the opening line and the closing line.
C3_MultiLinePlacement ==
    (op = "fix_returns" /\ pc = "idle") =>
        \A i \in 1..Len(InLines) :
            IsOpening(InLines, i) =>
                Block(OutLines, SubSeq(InLines, i, StmtEnd(InLines, i)))

\* C4: Leading-exit conversion.  When fix_route_handlers has run on a file
\* whose only `return res.` line i is a one-line statement beginning with
\* `return res.json(` or `return res.status(...).json(`, the output is the
\* input with that line stripped of its `return` and followed by exactly one
\* bare `return;`: an inserted one unless the next line already was one.
C4_LeadingExitConversion ==
    op = "fix_return_types" =>
        LET inl == Split(TypesSubbed(before))
            out == Split(content)
        IN  \A i \in 1..Len(inl) :
                (/\ LeadingExit(inl[i])
                 /\ Terminated(inl[i])
                 /\ \A j \in 1..Len(inl) :
                        j # i => ~Contains(inl[j], RETURN_RES)) =>
                    LET d == IF i + 1 <= Len(inl) /\ IsBareReturn(inl[i + 1])
                             THEN 0 ELSE 1
                    IN  /\ Len(out) = Len(inl) + d
                        /\ SubSeq(out, 1, i - 1) = SubSeq(inl, 1, i - 1)
                        /\ out[i] = WithoutReturn(inl[i])
                        /\ IsBareReturn(out[i + 1])
                        /\ SubSeq(out, i + 1 + d, Len(out))
                              = SubSeq(inl, i + 1, Len(inl))

\* C5: Non-interference.  After a run of any script over a file whose last
\* line is terminated, the lines that hold no
\* response call (bare returns and handler signatures aside) are the same
\* lines, in the same order, as in the file read.
C5_NonInterference ==
    (op # "none" /\ InputTerminated) =>
        SelectSeq(OutLines, IsFrameLine) = SelectSeq(InLines, IsFrameLine)

\* C6: Comment lines are never classified as statements.  After a run of
\* any script over a file whose last line is terminated, the comment lines are the comment lines of the file read,
\* with the same text, and a bare `return;` follows one only if it did in
\* the file read.
C6_CommentsUntouched ==
    (op # "none" /\ InputTerminated) =>
        CommentFollowFrom(OutLines, 1) = CommentFollowFrom(InLines, 1)

\* C7: Indentation preservation.  When the file read held no bare
\* `return;` and its last line was terminated, every bare `return;` of the output that follows a single-line
\* response statement has as many leading spaces as that statement.
C7_IndentationPreserved ==
    (/\ ScanDone
     /\ InputTerminated
     /\ \A j \in 1..Len(InLines) : ~IsBareReturn(InLines[j])) =>
        \A k \in 2..Len(OutLines) :
            (/\ IsBareReturn(OutLines[k])
             /\ IsEmitting(OutLines[k - 1])
             /\ Terminated(OutLines[k - 1])) =>
                LeadingSpaces(OutLines[k]) = LeadingSpaces(OutLines[k - 1])

\* C8: Write-back only on change.  After a run of the hint-driven script
\* the file was written iff its content differs from the content read, and
\* the value returned is true iff it was written.
C8_WriteOnlyOnChange ==
    (op = "fix_returns" /\ pc = "idle") =>
        /\ wrote <=> (content # before)
        /\ ret <=> wrote

\* C9: Trailing-newline preservation.  After a run of an exit-inserting
\* script the file ends with a line terminator iff the file read did.
C9_TrailingNewline ==
    ScanDone => (EndsWithNewline(content) <=> EndsWithNewline(before))

\* C10: Patch ordering in the hint-driven script.  Inside the loop the line
\* at the index of the hint about to be processed is the line of that number
\* in the file read; and when the run is over, every hint h for which a
\* `return;` was inserted has the original line h, at the place the
\* insertions for smaller hints moved it to, immediately followed by the
\* `return;` inserted for it.
C10_PatchOrdering ==
    LET orig == ReadLines(before) IN
    /\ (pc = "loop" /\ todo # <<>> /\ Head(todo) <= Len(lines)) =>
           /\ Head(todo) <= Len(orig)
           /\ lines[Head(todo)] = orig[Head(todo)]
    /\ (pc = "idle" /\ op = "fix_returns") =>
           LET final == ReadLines(content) IN
           \A h \in added :
               LET p == h + Cardinality({k \in added : k < h}) IN
               /\ h <= Len(orig)
               /\ p + 1 <= Len(final)
               /\ final[p] = orig[h]
               /\ final[p + 1]
                     = Spaces(Indent(orig[h])) \o <<"return", ";", "\n">>

\* C10 witness: a run is over in which the hints were given in ascending
\* order and a `return;` was inserted for two of them
C10_Witness ==
    /\ pc = "idle"
    /\ op = "fix_returns"
    /\ Len(hints) >= 2
    /\ hints[1] < hints[2]
    /\ Cardinality(added) >= 2

====
